---- MODULE Spec2Model ----
(***************************************************************************)
(* A model of the path-finding graph of src/src/utils/astar.rs: the vertex *)
(* store and its mutators (add/insert/remove/pop vertex, link_unidirect,   *)
(* link_bidirect), the bounded frontier search Graph::build and the         *)
(* open-set search Graph::build_old; and of the resource manager of        *)
(* src/fyrox-resource/src: the loader container of loader.rs and the       *)
(* resource container of manager.rs with its loading tasks.                *)
(*                                                                         *)
(* Vertex indices are 0-based as in the source; TLA+ sequences are         *)
(* 1-based, so vertex i of the source is vertices[i + 1].                  *)
(* Positions are triples of small integers, which f32 represents exactly,  *)
(* so squared distances and scores are computed in integers.               *)
(***************************************************************************)
EXTENDS Integers, Sequences, FiniteSets, Bags, TLC

VARIABLES
    vertices,           \* Graph::vertices: sequence of [position, neighbours]
    prev,               \* the vertices as they were before the mutator call
                        \* that has just returned
    last,               \* the mutator call that has just returned:
                        \* [name, index, b, vertex], name "none" between calls
    from,               \* argument `from` of the search in progress
    to,                 \* argument `to` of the search in progress
    pc,                 \* "setup" while the graph is built, then the position
                        \* of the search: "loop", "done"
    searched_vertices,  \* build: the per-vertex searched flags
    search_heap,        \* build: the bag of candidates held by the BinaryHeap
    best_path,          \* build: best candidate recorded so far
    iter,               \* build: iterations of the search loop started so far
    found,              \* build: the loop was left by the `break` at the goal
    path,               \* the caller's output buffer (sequence of positions)
    result,             \* the value returned by the search, "none" before
    state,              \* build_old: VertexData::state of every vertex
    g_score,            \* build_old: VertexData::g_score of every vertex
    f_score,            \* build_old: VertexData::f_score of every vertex
    parent,             \* build_old: VertexData::parent of every vertex
    open_set_size,      \* build_old: the counter of the open-set loop
    penalty,            \* build_old: VertexData::g_penalty of every vertex
    stale,              \* build_old: the scratch fields as the last call found
                        \* them, before VertexData::clear
    loaders,            \* ResourceLoadersContainer::loaders
    resources,          \* ResourceManagerState::resources
    tasks,              \* the loading tasks spawned on the task pool that
                        \* have not finished
    spawn_log,          \* the calls of try_spawn_loading_task so far
    wait_ctx,           \* ResourceWaitContext::resources of the context
                        \* taken last
    rcall,              \* the resource manager call that has returned last
    rprev               \* loaders, resources and tasks before that call

vars == <<vertices, prev, last, from, to, pc, searched_vertices, search_heap,
          best_path, iter, found, path, result, state, g_score, f_score,
          parent, open_set_size, penalty, stale, loaders, resources, tasks, spawn_log,
          wait_ctx, rcall, rprev>>

resVars == <<loaders, resources, tasks, spawn_log, wait_ctx, rcall, rprev>>

oldVars == <<state, g_score, f_score, parent, open_set_size, penalty, stale>>

searchVars == <<from, to, pc, searched_vertices, search_heap, best_path, iter,
                found, path, result, oldVars>>

mutVars == <<prev, last>>

-----------------------------------------------------------------------------
(* Bounds of the model *)

\* largest number of vertices a graph of the model holds
MaxVerts == 3

\* largest total number of neighbour entries a graph of the model holds
MaxLinks == 2

\* positions the vertices of the model are placed at (Vector3 with integer
\* coordinates)
Points == {<<0, 0, 0>>, <<1, 0, 0>>, <<2, 0, 0>>}

\* positions of the vertices handed to add_vertex and insert_vertex in the
\* mutator model: the mutators never read a position, and the vertices of the
\* initial triangle lie at three different ones
MutPoints == {<<0, 0, 0>>}

-----------------------------------------------------------------------------
(* Sequence helpers (Vec operations) *)

\* Vec::remove(i), i 0-based and i < len
RemoveAt(s, i) == SubSeq(s, 1, i) \o SubSeq(s, i + 2, Len(s))

\* Vec::insert(i, e), i 0-based and i <= len
InsertAt(s, i, e) == SubSeq(s, 1, i) \o <<e>> \o SubSeq(s, i + 1, Len(s))

\* Iterator::position(|n| *n == x): 1-based place of the first x in s, 0 if none
FirstPosition(s, x) ==
    IF \E k \in 1..Len(s) : s[k] = x
    THEN CHOOSE k \in 1..Len(s) : s[k] = x /\ \A j \in 1..(k - 1) : s[j] # x
    ELSE 0

\* total number of neighbour entries of a vertex sequence
RECURSIVE LinkCount(_)
LinkCount(vs) ==
    IF vs = <<>> THEN 0 ELSE Len(vs[1].neighbours) + LinkCount(Tail(vs))

\* VertexData: the fields the mutators and Graph::build read
Vertex(p, nb) == [position |-> p, neighbours |-> nb]

\* the scratch fields of all vertices
Scratch(st, pen, g, f, par) ==
    [state |-> st, g_penalty |-> pen, g_score |-> g, f_score |-> f, parent |-> par]

\* all sequences over S of length exactly k
RECURSIVE SeqsOfLen(_, _)
SeqsOfLen(S, k) ==
    IF k = 0 THEN {<<>>}
    ELSE {Append(s, x) : s \in SeqsOfLen(S, k - 1), x \in S}

-----------------------------------------------------------------------------
(* The mutators of Graph *)

\* Graph::add_vertex
add_vertex(vs, v) == Append(vs, v)

\* remove_refs without the shift of the entries above index
remove_refs_noshift(nb, index) ==
    LET pos == FirstPosition(nb, index)
    IN  IF pos # 0 THEN RemoveAt(nb, pos - 1) ELSE nb

\* remove_refs that leaves the reference to the removed vertex in place
remove_refs_keep(nb, index) ==
    [k \in 1..Len(nb) |-> IF nb[k] > index THEN nb[k] - 1 ELSE nb[k]]

\* the body of the loop of Graph::remove_vertex for one vertex: the first
\* entry equal to index is removed, then every entry above index is decremented
remove_refs(nb, index) ==
    LET pos == FirstPosition(nb, index)
        cut == IF pos # 0 THEN RemoveAt(nb, pos - 1) ELSE nb
    IN  [k \in 1..Len(cut) |-> IF cut[k] > index THEN cut[k] - 1 ELSE cut[k]]

\* Graph::remove_vertex, index < len
remove_vertex(vs, index) ==
    RemoveAt([k \in 1..Len(vs) |->
                 Vertex(vs[k].position, remove_refs(vs[k].neighbours, index))],
             index)

\* Graph::pop_vertex
pop_vertex(vs) ==
    IF vs = <<>> THEN vs ELSE remove_vertex(vs, Len(vs) - 1)

\* shift_refs comparing with > instead of >=
shift_refs_strict(nb, index) ==
    [k \in 1..Len(nb) |-> IF nb[k] > index THEN nb[k] + 1 ELSE nb[k]]

\* the inner loop of Graph::insert_vertex for one vertex
shift_refs(nb, index) ==
    [k \in 1..Len(nb) |-> IF nb[k] >= index THEN nb[k] + 1 ELSE nb[k]]

\* Graph::insert_vertex, index <= len: the vertex is inserted first and the
\* loop then runs over every vertex of the graph
insert_vertex(vs, index, v) ==
    LET ins == InsertAt(vs, index, v)
    IN  [k \in 1..Len(ins) |->
            Vertex(ins[k].position, shift_refs(ins[k].neighbours, index))]

\* link_unidirect without the test that b is not yet listed
link_unidirect_push(vs, a, b) ==
    IF a < Len(vs)
    THEN [vs EXCEPT ![a + 1].neighbours = Append(@, b)]
    ELSE vs

\* Graph::link_unidirect
link_unidirect(vs, a, b) ==
    IF a < Len(vs) /\ (\A k \in 1..Len(vs[a + 1].neighbours) :
                           vs[a + 1].neighbours[k] # b)
    THEN [vs EXCEPT ![a + 1].neighbours = Append(@, b)]
    ELSE vs

\* Graph::link_bidirect
link_bidirect(vs, a, b) == link_unidirect(link_unidirect(vs, a, b), b, a)

-----------------------------------------------------------------------------
(* Scores.  A score is a small natural number, or FMAX, which stands for    *)
(* f32::MAX: larger than every finite score the model produces.             *)

FMAX == 1000000

\* f32 subtraction a - b for a >= b: f32::MAX - f32::MAX is 0, and f32::MAX
\* minus a small score rounds back to f32::MAX
FSub(a, b) ==
    IF a = FMAX THEN (IF b = FMAX THEN 0 ELSE FMAX) ELSE a - b

\* (a - b).norm_squared()
norm_squared(a, b) ==
    (a[1] - b[1]) * (a[1] - b[1]) + (a[2] - b[2]) * (a[2] - b[2])
        + (a[3] - b[3]) * (a[3] - b[3])

\* fn heuristic
heuristic(a, b) == norm_squared(a, b)

\* VertexData::g_penalty as VertexData::new and GraphVertex::new set it
g_penalty == 1

\* PartialPath::default()
DefaultPartialPath == [vertices |-> <<>>, g_score |-> FMAX, f_score |-> FMAX]

\* PartialPath::new(start)
NewPartialPath(start) == [vertices |-> <<start>>, g_score |-> 0, f_score |-> FMAX]

\* clone_and_add that overwrites the last vertex instead of pushing
clone_and_replace(p, new_vertex, new_g_score, new_f_score) ==
    [vertices |-> SubSeq(p.vertices, 1, Len(p.vertices) - 1) \o <<new_vertex>>,
     g_score |-> new_g_score, f_score |-> new_f_score]

\* PartialPath::clone_and_add
clone_and_add(p, new_vertex, new_g_score, new_f_score) ==
    [vertices |-> Append(p.vertices, new_vertex),
     g_score |-> new_g_score, f_score |-> new_f_score]

\* a > b in the order of `impl Ord for PartialPath`: cmp compares f_score, then
\* f_score - g_score, and reverses the outcome
PathGreater(a, b) ==
    \/ a.f_score < b.f_score
    \/ /\ a.f_score = b.f_score
       /\ FSub(a.f_score, a.g_score) < FSub(b.f_score, b.g_score)

\* BinaryHeap::new()
EmptyHeap == EmptyBag

\* BinaryHeap::push
HeapPush(heap, item) == heap (+) SetToBag({item})

\* the heap after BinaryHeap::pop has returned item
HeapRemove(heap, item) == heap (-) SetToBag({item})

\* the items BinaryHeap::pop may return: those no other item is greater
\* than (which of several equal greatest items comes first is left open)
PopChoices(heap) ==
    {c \in BagToSet(heap) : \A d \in BagToSet(heap) : ~PathGreater(d, c)}

\* the neighbour loop of Graph::build pushing a candidate for every
\* neighbour, searched or not
RECURSIVE Expand_all(_, _, _, _, _, _)
Expand_all(vs, end_pos, searched, current_path, k, heap) ==
    LET current_vertex == vs[current_path.vertices[Len(current_path.vertices)] + 1]
        neighbour_index == current_vertex.neighbours[k]
        neighbour == vs[neighbour_index + 1]
        neighbour_g_score ==
            current_path.g_score
                + norm_squared(current_vertex.position, neighbour.position) * g_penalty
        neighbour_f_score ==
            neighbour_g_score + heuristic(neighbour.position, end_pos)
    IN  IF k > Len(current_vertex.neighbours) THEN [panic |-> FALSE, heap |-> heap]
        ELSE IF neighbour_index >= Len(searched) THEN [panic |-> TRUE, heap |-> heap]
        ELSE Expand_all(vs, end_pos, searched, current_path, k + 1,
                    HeapPush(heap, clone_and_add(current_path, neighbour_index,
                                                 neighbour_g_score, neighbour_f_score)))

\* the loop `for i in current_vertex.neighbours.iter()` of Graph::build from
\* the k-th neighbour on: the heap after the pushes, and whether indexing
\* searched_vertices out of bounds panicked on the way
RECURSIVE Expand(_, _, _, _, _, _)
Expand(vs, end_pos, searched, current_path, k, heap) ==
    LET current_vertex == vs[current_path.vertices[Len(current_path.vertices)] + 1]
        neighbour_index == current_vertex.neighbours[k]
        neighbour == vs[neighbour_index + 1]
        neighbour_g_score ==
            current_path.g_score
                + norm_squared(current_vertex.position, neighbour.position) * g_penalty
        neighbour_f_score ==
            neighbour_g_score + heuristic(neighbour.position, end_pos)
    IN  IF k > Len(current_vertex.neighbours) THEN [panic |-> FALSE, heap |-> heap]
        ELSE IF neighbour_index >= Len(searched) THEN [panic |-> TRUE, heap |-> heap]
        ELSE IF searched[neighbour_index + 1]
             THEN Expand(vs, end_pos, searched, current_path, k + 1, heap)
        ELSE Expand(vs, end_pos, searched, current_path, k + 1,
                    HeapPush(heap, clone_and_add(current_path, neighbour_index,
                                                 neighbour_g_score, neighbour_f_score)))

\* the longest prefix of indices that are all valid vertex indices
RECURSIVE ValidPrefix(_, _)
ValidPrefix(vs, idx) ==
    IF idx = <<>> \/ Head(idx) >= Len(vs) THEN <<>>
    ELSE <<Head(idx)>> \o ValidPrefix(vs, Tail(idx))

\* the positions of a sequence of valid vertex indices
Positions(vs, idx) == [k \in 1..Len(idx) |-> vs[idx[k] + 1].position]

\* Vec::reverse
Reverse(s) == [k \in 1..Len(s) |-> s[Len(s) + 1 - k]]

\* the values a search returns
Ok(kind) == [tag |-> kind, arg |-> 0]
\* InvalidIndex carrying the index after the offending one
InvalidIndexNext(i) == [tag |-> "InvalidIndex", arg |-> i + 1]
InvalidIndex(i) == [tag |-> "InvalidIndex", arg |-> i]
ErrEmpty == [tag |-> "Empty", arg |-> 0]
Panic == [tag |-> "panic", arg |-> 0]
NoResult == [tag |-> "none", arg |-> 0]

\* the hard-coded number of iterations of the search loop of Graph::build
MaxIters == 1000

-----------------------------------------------------------------------------
(* Graph::build as three steps: the prologue, one iteration of the search   *)
(* loop, and the conversion of the best candidate into positions.           *)

\* what the caller's buffer may hold before the call: nothing, or the
\* waypoints of an earlier search
StalePath == <<<<5, 5, 5>>, <<7, 7, 7>>>>

\* the indices build is called with
CallIndices == IF vertices = <<>> THEN {0} ELSE 0..(Len(vertices) - 1)

Return(r, p) ==
    /\ result' = r
    /\ path' = p
    /\ pc' = "done"

\* a call build(from, to, &mut path) on the graph as it stands, with a buffer
\* holding buf, up to the search loop
BuildCallOn(f, t, buf) ==
    /\ pc = "setup"
    /\ UNCHANGED <<vertices, mutVars, resVars, oldVars>>
    /\ found' = FALSE
    /\ iter' = 0
    /\ from' = f
    /\ to' = t
    /\ IF vertices = <<>>
       THEN /\ Return(Ok("Partial"), buf)
            /\ UNCHANGED <<searched_vertices, search_heap, best_path>>
       ELSE /\ searched_vertices' = [k \in 1..Len(vertices) |-> FALSE]
            /\ IF t >= Len(vertices)
               THEN /\ Return(InvalidIndex(t), <<>>)
                    /\ UNCHANGED <<search_heap, best_path>>
               ELSE /\ search_heap' = HeapPush(EmptyHeap, NewPartialPath(f))
                    /\ best_path' = DefaultPartialPath
                    /\ path' = <<>>
                    /\ pc' = "loop"
                    /\ UNCHANGED result

\* build called with valid indices (index 0 on the empty graph)
BuildCall ==
    \E f \in CallIndices, t \in CallIndices, buf \in {<<>>, StalePath} :
        BuildCallOn(f, t, buf)

\* one iteration of `for _ in 0..1000`
BuildIter ==
    /\ pc = "loop"
    /\ iter < MaxIters
    /\ search_heap # EmptyHeap
    /\ ~found
    /\ UNCHANGED <<vertices, mutVars, resVars, oldVars, from, to>>
    /\ iter' = iter + 1
    /\ \E current_path \in PopChoices(search_heap) :
          LET popped == HeapRemove(search_heap, current_path)
              current_index == current_path.vertices[Len(current_path.vertices)]
              better == PathGreater(current_path, best_path)
              end_pos == vertices[to + 1].position
              pushed == Expand(vertices, end_pos, searched_vertices, current_path,
                               1, popped)
          IN  /\ best_path' = IF better THEN current_path ELSE best_path
              /\ IF better /\ current_index = to
                 THEN /\ found' = TRUE
                      /\ search_heap' = popped
                      /\ UNCHANGED <<searched_vertices, pc, path, result>>
                 ELSE IF current_index >= Len(vertices)
                 THEN /\ Return(InvalidIndex(current_index), path)
                      /\ search_heap' = popped
                      /\ UNCHANGED <<searched_vertices, found>>
                 ELSE IF pushed.panic
                 THEN /\ Return(Panic, path)
                      /\ search_heap' = popped
                      /\ UNCHANGED <<searched_vertices, found>>
                 ELSE /\ search_heap' = pushed.heap
                      /\ searched_vertices' =
                             [searched_vertices EXCEPT ![current_index + 1] = TRUE]
                      /\ UNCHANGED <<found, pc, path, result>>

\* Graph::build after the search loop
BuildConvert ==
    /\ pc = "loop"
    /\ iter = MaxIters \/ search_heap = EmptyHeap \/ found
    /\ UNCHANGED <<vertices, mutVars, resVars, oldVars, from, to, searched_vertices, search_heap,
                   best_path, iter, found>>
    /\ LET valid == ValidPrefix(vertices, best_path.vertices)
           end_pos == vertices[to + 1].position
       IN  IF Len(valid) < Len(best_path.vertices)
           THEN Return(InvalidIndex(best_path.vertices[Len(valid) + 1]),
                       Positions(vertices, valid))
           ELSE LET out == Reverse(Positions(vertices, valid))
                IN  IF out = <<>> THEN Return(ErrEmpty, out)
                    ELSE IF out[1] = end_pos THEN Return(Ok("Full"), out)
                    ELSE Return(Ok("Partial"), out)


-----------------------------------------------------------------------------
(* The resource manager of fyrox-resource.  A path is a file stem with an   *)
(* extension ("" when it has none); a loader is a value of a loader type;   *)
(* a resource is an entry of the container, identified by its place in it   *)
(* (nothing is evicted here), with the path and the state of its            *)
(* ResourceState.  The type uuid passed to request is stored and never      *)
(* read by the container, and is left out.                                  *)

\* most reload_resource calls of a run
MaxReloads == 1

\* number of different loader values of one type
MaxInst == 2

\* most loaders the container holds
MaxLoaders == 3

\* the paths that are requested
ResPaths ==
    {[stem |-> "a", ext |-> "txt"], [stem |-> "a", ext |-> "TXT"],
     [stem |-> "b", ext |-> "png"]}

\* OsStr::to_ascii_lowercase on the extensions of ResPaths
to_ascii_lowercase(e) ==
    IF e = "TXT" THEN "txt" ELSE IF e = "PNG" THEN "png" ELSE e

\* the loader types: two that load files, and the loader of the tests, which
\* lists no extension
LoaderTypes == {"TextLoader", "ImageLoader", "MyResourceLoader"}

\* ResourceLoader::extensions of a loader
extensions(loader) ==
    IF loader.type = "TextLoader" THEN {"txt"}
    ELSE IF loader.type = "ImageLoader" THEN {"png"}
    ELSE {}

Loader(T, i) == [type |-> T, inst |-> i]

\* Option::None where a loader is returned
NoLoader == Loader("none", 0)

\* the place (1-based) of the first loader of type T in ls, 0 if there is none
LoaderPosition(ls, T) ==
    IF \E k \in 1..Len(ls) : ls[k].type = T
    THEN CHOOSE k \in 1..Len(ls) :
             ls[k].type = T /\ \A j \in 1..(k - 1) : ls[j].type # T
    ELSE 0

\* ResourceLoadersContainer::set: the container afterwards and the value
\* returned
set(ls, loader) ==
    LET pos == LoaderPosition(ls, loader.type)
    IN  IF pos # 0
        THEN [loaders |-> [ls EXCEPT ![pos] = loader], ret |-> ls[pos]]
        ELSE [loaders |-> Append(ls, loader), ret |-> NoLoader]

\* ResourceLoadersContainer::try_replace::<Prev, New>(new_loader)
try_replace(ls, Prev, new_loader) ==
    LET pos == LoaderPosition(ls, Prev)
    IN  IF pos # 0
        THEN [loaders |-> [ls EXCEPT ![pos] = new_loader], ret |-> ls[pos]]
        ELSE [loaders |-> ls, ret |-> NoLoader]

\* UntypedResource::new_pending(path, type_uuid)
new_pending(p) == [path |-> p, state |-> "Pending"]

\* ResourceManagerState::find: the place (1-based) of the first resource whose
\* state reports path p, 0 if there is none
find(rs, p) ==
    IF \E k \in 1..Len(rs) : rs[k].path = p
    THEN CHOOSE k \in 1..Len(rs) :
             rs[k].path = p /\ \A j \in 1..(k - 1) : rs[j].path # p
    ELSE 0

\* ResourceManagerState::push (the Added event is not modelled)
push(rs, r) == Append(rs, r)

\* the search of try_spawn_loading_task: is there a loader listing the
\* lower-cased extension of p
has_loader(ls, p) ==
    /\ p.ext # ""
    /\ \E k \in 1..Len(ls) : to_ascii_lowercase(p.ext) \in extensions(ls[k])

\* a loading task for resource res
Task(res, reload) == [res |-> res, reload |-> reload]

\* ResourceManagerState::try_spawn_loading_task: the tasks afterwards
try_spawn_loading_task(ls, ts, p, res, reload) ==
    IF has_loader(ls, p) THEN ts \cup {Task(res, reload)} ELSE ts

\* the entry try_spawn_loading_task leaves in the log of its calls
Spawn(ls, p, reload) ==
    [path |-> p, reload |-> reload, spawned |-> has_loader(ls, p)]

\* request that never looks for an existing resource
request_new(ls, rs, ts, p) ==
    [resources |-> push(rs, new_pending(p)),
     tasks |-> try_spawn_loading_task(ls, ts, p, Len(rs) + 1, FALSE),
     ret |-> Len(rs) + 1,
     spawn |-> TRUE]

\* ResourceManagerState::request: the container and the tasks afterwards, the
\* resource returned, and whether try_spawn_loading_task was called
request(ls, rs, ts, p) ==
    IF find(rs, p) # 0
    THEN [resources |-> rs, tasks |-> ts, ret |-> find(rs, p), spawn |-> FALSE]
    ELSE [resources |-> push(rs, new_pending(p)),
          tasks |-> try_spawn_loading_task(ls, ts, p, Len(rs) + 1, FALSE),
          ret |-> Len(rs) + 1,
          spawn |-> TRUE]

\* ResourceWaitContext::is_all_loaded of a context holding the resources ctx
is_all_loaded(rs, ctx) == \A i \in ctx : rs[i].state # "Pending"

RCall(name, arg, ret) == [name |-> name, arg |-> arg, ret |-> ret]

\* the argument of a call that takes none
NoArg == [none |-> TRUE]

\* the argument of reload_resource: the i-th resource of the container
ResourceArg(i) == [resource |-> i]

NoRCall == RCall("none", NoArg, 0)

Snapshot(ls, rs, ts) == [loaders |-> ls, resources |-> rs, tasks |-> ts]

NoSnapshot == Snapshot(<<>>, <<>>, {})

\* ResourceManagerState::new(), no call made yet
ResNew ==
    /\ loaders = <<>>
    /\ resources = <<>>
    /\ tasks = {}
    /\ spawn_log = EmptyBag
    /\ wait_ctx = {}
    /\ rcall = NoRCall
    /\ rprev = NoSnapshot

\* a call on the resource manager returns: what it was, and the part of the
\* manager it works on as the call found it
Returns(name, arg, ret, before) ==
    /\ rcall' = RCall(name, arg, ret)
    /\ rprev' = before

\* the variables of the graph
graphVars == <<vertices, mutVars, searchVars>>

\* state.loaders.set(loader)
LoaderSet ==
    \E T \in LoaderTypes, i \in 1..MaxInst :
        LET out == set(loaders, Loader(T, i))
        IN  /\ Len(out.loaders) <= MaxLoaders
            /\ loaders' = out.loaders
            /\ Returns("set", Loader(T, i), out.ret, Snapshot(loaders, <<>>, {}))
            /\ UNCHANGED <<graphVars, resources, tasks, spawn_log, wait_ctx>>

\* state.loaders.try_replace::<Prev, New>(new_loader)
LoaderTryReplace ==
    \E Prev \in LoaderTypes, New \in LoaderTypes, i \in 1..MaxInst :
        LET out == try_replace(loaders, Prev, Loader(New, i))
        IN  /\ loaders' = out.loaders
            /\ Returns("try_replace", [prev |-> Prev, new |-> Loader(New, i)],
                       out.ret, Snapshot(loaders, <<>>, {}))
            /\ UNCHANGED <<graphVars, resources, tasks, spawn_log, wait_ctx>>

\* a loader is registered before or between the requests
RegisterLoader ==
    \E T \in LoaderTypes :
        LET out == set(loaders, Loader(T, 1))
        IN  /\ out.loaders # loaders
            /\ loaders' = out.loaders
            /\ Returns("set", Loader(T, 1), out.ret, NoSnapshot)
            /\ UNCHANGED <<graphVars, resources, tasks, spawn_log, wait_ctx>>

\* state.request(path, type_uuid)
Request ==
    \E p \in ResPaths :
        LET out == request(loaders, resources, tasks, p)
        IN  /\ resources' = out.resources
            /\ tasks' = out.tasks
            /\ spawn_log' = IF out.spawn
                            THEN spawn_log (+) SetToBag({Spawn(loaders, p, FALSE)})
                            ELSE spawn_log
            /\ Returns("request", p, out.ret, Snapshot(<<>>, resources, tasks))
            /\ UNCHANGED <<graphVars, loaders, wait_ctx>>

\* the reload_resource calls made so far that went on to
\* try_spawn_loading_task
Reloads ==
    BagCardinality([e \in {x \in BagToSet(spawn_log) : x.reload} |->
                       spawn_log[e]])

\* state.reload_resource(resource) on a resource of the container
ReloadResource ==
    /\ Reloads < MaxReloads
    /\ \E i \in 1..Len(resources) :
          /\ IF resources[i].state # "Pending"
             THEN /\ resources' = [resources EXCEPT ![i].state = "Pending"]
                  /\ tasks' = try_spawn_loading_task(loaders, tasks,
                                                     resources[i].path, i, TRUE)
                  /\ spawn_log' = spawn_log
                         (+) SetToBag({Spawn(loaders, resources[i].path, TRUE)})
             ELSE UNCHANGED <<resources, tasks, spawn_log>>
          /\ Returns("reload_resource", ResourceArg(i), 0, NoSnapshot)
    /\ UNCHANGED <<graphVars, loaders, wait_ctx>>

\* state.get_wait_context()
GetWaitContext ==
    /\ wait_ctx' = 1..Len(resources)
    /\ Returns("get_wait_context", NoArg, 0, NoSnapshot)
    /\ UNCHANGED <<graphVars, loaders, resources, tasks, spawn_log>>

\* the future returned by ResourceLoader::load completes on the task pool:
\* the resource is loaded, or has failed to load
TaskFinish ==
    /\ \E t \in tasks, outcome \in {"Ok", "LoadError"} :
          /\ resources' = [resources EXCEPT ![t.res].state = outcome]
          /\ tasks' = tasks \ {t}
    /\ rcall' = NoRCall
    /\ rprev' = NoSnapshot
    /\ UNCHANGED <<graphVars, loaders, spawn_log, wait_ctx>>

-----------------------------------------------------------------------------
(* The mutator calls as actions.  A call records its arguments (last) and  *)
(* the graph it was made on (prev); the caller then goes on (Resume).       *)

\* GraphVertex::default(): the vertex value of a call that passes none
NoVertex == Vertex(<<0, 0, 0>>, <<>>)

Call(name, index, b, v) == [name |-> name, index |-> index, b |-> b, vertex |-> v]

NoCall == Call("none", 0, 0, NoVertex)

\* neighbour entries the model stores: every valid index and one that is not
NbValues == 0..MaxVerts

\* the graph of test_remove_vertex and test_insert_vertex: three vertices
\* linked bidirectionally into a triangle
TestTriangle ==
    link_bidirect(
        link_bidirect(
            link_bidirect(<<Vertex(<<0, 0, 0>>, <<>>), Vertex(<<1, 0, 0>>, <<>>),
                            Vertex(<<1, 1, 0>>, <<>>)>>, 0, 1),
            1, 2),
        2, 0)

\* the vertices handed to add_vertex and insert_vertex on graph vs: the
\* field neighbours is public, so a vertex may arrive with any list
NewVertices(vs) ==
    UNION {{Vertex(p, nb) : p \in MutPoints, nb \in SeqsOfLen(NbValues, k)} :
              k \in 0..(MaxLinks - LinkCount(vs))}

SearchIdle ==
    /\ from = 0
    /\ to = 0
    /\ pc = "idle"
    /\ searched_vertices = <<>>
    /\ search_heap = EmptyHeap
    /\ best_path = DefaultPartialPath
    /\ iter = 0
    /\ found = FALSE
    /\ path = <<>>
    /\ result = NoResult
    /\ state = <<>>
    /\ g_score = <<>>
    /\ f_score = <<>>
    /\ parent = <<>>
    /\ open_set_size = 0
    /\ penalty = <<>>
    /\ stale = Scratch(<<>>, <<>>, <<>>, <<>>, <<>>)

\* Graph::new(), or Graph::set_vertices with the triangle of the tests
MutInit ==
    /\ vertices \in {<<>>, TestTriangle}
    /\ prev = <<>>
    /\ last = NoCall
    /\ SearchIdle
    /\ ResNew

Mutate(name, index, b, v, vs) ==
    /\ vertices' = vs
    /\ prev' = vertices
    /\ last' = Call(name, index, b, v)
    /\ UNCHANGED <<searchVars, resVars>>

\* the caller goes on after a call that has returned
Resume ==
    /\ last # NoCall
    /\ result # Panic
    /\ prev' = <<>>
    /\ last' = NoCall
    /\ UNCHANGED <<vertices, searchVars, resVars>>

AddVertex ==
    /\ last = NoCall
    /\ Len(vertices) < MaxVerts
    /\ \E v \in NewVertices(vertices) :
          Mutate("add_vertex", Len(vertices), 0, v, add_vertex(vertices, v))

InsertVertex ==
    /\ last = NoCall
    /\ Len(vertices) < MaxVerts
    /\ \E index \in 0..Len(vertices), v \in NewVertices(vertices) :
          Mutate("insert_vertex", index, 0, v, insert_vertex(vertices, index, v))

RemoveVertex ==
    /\ last = NoCall
    /\ \E index \in 0..(Len(vertices) - 1) :
          Mutate("remove_vertex", index, 0, NoVertex, remove_vertex(vertices, index))

PopVertex ==
    /\ last = NoCall
    /\ Mutate("pop_vertex", 0, 0, NoVertex, pop_vertex(vertices))

LinkUnidirect ==
    /\ last = NoCall
    /\ \E a \in NbValues, b \in NbValues :
          /\ LinkCount(link_unidirect(vertices, a, b)) <= MaxLinks
          /\ Mutate("link_unidirect", a, b, NoVertex, link_unidirect(vertices, a, b))

LinkBidirect ==
    /\ last = NoCall
    /\ \E a \in NbValues, b \in NbValues :
          /\ LinkCount(link_bidirect(vertices, a, b)) <= MaxLinks
          /\ Mutate("link_bidirect", a, b, NoVertex, link_bidirect(vertices, a, b))

\* insert_vertex(index, v) immediately followed by remove_vertex(index)
InsertThenRemove ==
    /\ last = NoCall
    /\ Len(vertices) < MaxVerts
    /\ \E index \in 0..Len(vertices), v \in NewVertices(vertices) :
          Mutate("insert_then_remove", index, 0, v,
                 remove_vertex(insert_vertex(vertices, index, v), index))

MutNext ==
    \/ AddVertex
    \/ InsertVertex
    \/ RemoveVertex
    \/ PopVertex
    \/ LinkUnidirect
    \/ LinkBidirect
    \/ InsertThenRemove
    \/ Resume

SpecMut == MutInit /\ [][MutNext]_vars

-----------------------------------------------------------------------------
(* The resource manager on its own *)

\* the graph is not used
GraphIdle ==
    /\ vertices = <<>>
    /\ prev = <<>>
    /\ last = NoCall
    /\ SearchIdle

ResInit == GraphIdle /\ ResNew

ResNext ==
    \/ RegisterLoader
    \/ Request
    \/ ReloadResource
    \/ GetWaitContext
    \/ TaskFinish

\* the task pool runs every task it was given
SpecRes == ResInit /\ [][ResNext]_vars /\ WF_vars(TaskFinish)

LoadersNext ==
    \/ LoaderSet
    \/ LoaderTryReplace

SpecLoaders == ResInit /\ [][LoadersNext]_vars

-----------------------------------------------------------------------------
(* The graphs Graph::build is called on *)

\* widest and highest grid of the model
GridW == 3
GridH == 2

\* the neighbour list of vertex idx = y * W + x of a W x H grid after the
\* link_bidirect calls of the tests (for every vertex in index order, the
\* link to the right neighbour, then the link to the neighbour in the next
\* row): the vertex above, the left one, the right one, the one below
GridNeighbours(W, H, idx) ==
    (IF idx \div W > 0 THEN <<idx - W>> ELSE <<>>)
        \o (IF idx % W > 0 THEN <<idx - 1>> ELSE <<>>)
        \o (IF idx % W < W - 1 THEN <<idx + 1>> ELSE <<>>)
        \o (IF idx \div W < H - 1 THEN <<idx + W>> ELSE <<>>)

\* a W x H grid with vertex y * W + x at (x, y, 0), every pair of horizontally
\* or vertically adjacent vertices linked bidirectionally
GridGraph(W, H) ==
    [k \in 1..(W * H) |->
        Vertex(<<(k - 1) % W, (k - 1) \div W, 0>>, GridNeighbours(W, H, k - 1))]

\* Graph::new()
BuildInit ==
    /\ vertices = <<>>
    /\ prev = <<>>
    /\ last = NoCall
    /\ from = 0
    /\ to = 0
    /\ pc = "setup"
    /\ searched_vertices = <<>>
    /\ search_heap = EmptyHeap
    /\ best_path = DefaultPartialPath
    /\ iter = 0
    /\ found = FALSE
    /\ path = <<>>
    /\ result = NoResult
    /\ state = <<>>
    /\ g_score = <<>>
    /\ f_score = <<>>
    /\ parent = <<>>
    /\ open_set_size = 0
    /\ penalty = <<>>
    /\ stale = Scratch(<<>>, <<>>, <<>>, <<>>, <<>>)
    /\ ResNew

\* add_vertex(GraphVertex::new(p)).  Vertices are numbered by non-decreasing
\* x: Graph::build treats every numbering of the same graph alike.  Several
\* vertices may share a point.
SetupVertex ==
    /\ pc = "setup"
    /\ Len(vertices) < MaxVerts
    /\ \E p \in Points :
          /\ vertices # <<>> => vertices[Len(vertices)].position[1] <= p[1]
          /\ vertices' = add_vertex(vertices, Vertex(p, <<>>))
    /\ UNCHANGED <<mutVars, resVars, searchVars>>

\* link_unidirect(a, b) between two vertices of the graph (a = b included)
SetupLink ==
    /\ pc = "setup"
    /\ LinkCount(vertices) < MaxLinks
    /\ \E a \in 0..(Len(vertices) - 1), b \in 0..(Len(vertices) - 1) :
          /\ link_unidirect(vertices, a, b) # vertices
          /\ vertices' = link_unidirect(vertices, a, b)
    /\ UNCHANGED <<mutVars, resVars, searchVars>>

\* set_vertices and link loops like those of the tests, run over every row
\* and column so that all adjacent vertices are linked
SetupGrid ==
    /\ pc = "setup"
    /\ vertices = <<>>
    /\ \E W \in 1..GridW, H \in 1..GridH : vertices' = GridGraph(W, H)
    /\ UNCHANGED <<mutVars, resVars, searchVars>>

BuildNext ==
    \/ SetupVertex
    \/ SetupLink
    \/ SetupGrid
    \/ BuildCall
    \/ BuildIter
    \/ BuildConvert

SpecBuild == BuildInit /\ [][BuildNext]_vars

-----------------------------------------------------------------------------
(* Properties of the mutators *)

\* every neighbour entry of vs is the index of a vertex of vs
InRange(vs) ==
    \A k \in 1..Len(vs) : \A j \in 1..Len(vs[k].neighbours) :
        vs[k].neighbours[j] < Len(vs)

\* no neighbour list of vs holds an index twice
NoDuplicates(vs) ==
    \A k \in 1..Len(vs) : \A i, j \in 1..Len(vs[k].neighbours) :
        i # j => vs[k].neighbours[i] # vs[k].neighbours[j]

\* nb with every entry equal to index deleted and every entry greater than
\* index decremented by one, order preserved
RECURSIVE DeleteAndShift(_, _)
DeleteAndShift(nb, index) ==
    IF nb = <<>> THEN <<>>
    ELSE IF Head(nb) = index THEN DeleteAndShift(Tail(nb), index)
    ELSE <<IF Head(nb) > index THEN Head(nb) - 1 ELSE Head(nb)>>
             \o DeleteAndShift(Tail(nb), index)

\* the index a vertex at old index i has after an insert at index
AfterInsert(i, index) == IF i >= index THEN i + 1 ELSE i

\* the old index of the vertex at new index i after a remove at index
BeforeRemove(i, index) == IF i >= index THEN i + 1 ELSE i

\* C6: starting from a graph all of whose neighbour entries are smaller than
\* the vertex count, an insert_vertex of a vertex without neighbours, a
\* remove_vertex or a pop_vertex leaves every neighbour entry smaller than the
\* vertex count.
C6_NeighboursStayInRange ==
    (/\ last.name \in {"insert_vertex", "remove_vertex", "pop_vertex"}
     /\ last.vertex.neighbours = <<>>
     /\ InRange(prev))
        => InRange(vertices)

\* C7: insert_vertex(k, v) immediately followed by remove_vertex(k) leaves the
\* vertex sequence and every neighbour list exactly as before the insert.
C7_InsertRemoveRoundTrip ==
    last.name = "insert_then_remove" => vertices = prev

\* C7 witness: a round trip at k on a graph with a vertex holding both an
\* entry equal to k and an entry above k
C7_Witness ==
    /\ last.name = "insert_then_remove"
    /\ \E k \in 1..Len(prev) :
          /\ \E j \in 1..Len(prev[k].neighbours) :
                prev[k].neighbours[j] = last.index
          /\ \E j \in 1..Len(prev[k].neighbours) :
                prev[k].neighbours[j] > last.index

\* C8: on a graph whose lists were built by link_unidirect/link_bidirect (no
\* index twice in a list), remove_vertex(index) drops one vertex, keeps the
\* others in order, and turns each remaining list into the old list with the
\* entries equal to index deleted and the entries above index decremented; a
\* fully linked triangle becomes two vertices listing each other.
C8_RemoveVertexEffect ==
    /\ (last.name = "remove_vertex" /\ NoDuplicates(prev)) =>
          /\ Len(vertices) = Len(prev) - 1
          /\ \A i \in 0..(Len(vertices) - 1) :
                LET old == prev[BeforeRemove(i, last.index) + 1]
                IN  /\ vertices[i + 1].position = old.position
                    /\ vertices[i + 1].neighbours =
                           DeleteAndShift(old.neighbours, last.index)
                    /\ \A j \in 1..Len(old.neighbours) :
                          (old.neighbours[j] # last.index) =>
                             \E m \in 1..Len(vertices[i + 1].neighbours) :
                                BeforeRemove(vertices[i + 1].neighbours[m],
                                             last.index) = old.neighbours[j]
    /\ (last.name = "remove_vertex" /\ last.index = 0 /\ prev = TestTriangle) =>
          /\ Len(vertices) = 2
          /\ vertices[1].neighbours = <<1>>
          /\ vertices[2].neighbours = <<0>>

\* C8 witness: a vertex other than the removed one held a reference to it and
\* a reference above it
C8_Witness ==
    /\ last.name = "remove_vertex"
    /\ NoDuplicates(prev)
    /\ \E k \in 1..Len(prev) :
          /\ k # last.index + 1
          /\ \E j \in 1..Len(prev[k].neighbours) : prev[k].neighbours[j] = last.index
          /\ \E j \in 1..Len(prev[k].neighbours) : prev[k].neighbours[j] > last.index

\* C9: insert_vertex(index, v) places v at index, moves the vertices at and
\* after index up by one, and in every vertex that existed before increments
\* exactly the entries that were >= index, so every old link u -> w joins the
\* same two vertices.
C9_InsertVertexEffect ==
    last.name = "insert_vertex" =>
        /\ Len(vertices) = Len(prev) + 1
        /\ vertices[last.index + 1].position = last.vertex.position
        /\ \A u \in 0..(Len(prev) - 1) :
              LET old == prev[u + 1]
                  new == vertices[AfterInsert(u, last.index) + 1]
              IN  /\ new.position = old.position
                  /\ Len(new.neighbours) = Len(old.neighbours)
                  /\ \A j \in 1..Len(old.neighbours) :
                        /\ new.neighbours[j] = AfterInsert(old.neighbours[j], last.index)
                        /\ (old.neighbours[j] < last.index) =>
                               new.neighbours[j] = old.neighbours[j]
                        /\ (old.neighbours[j] >= last.index) =>
                               new.neighbours[j] = old.neighbours[j] + 1

\* C9 witness: an insert into a graph with a vertex holding an entry below
\* index and an entry at or above index, with vertices on both sides of index
C9_Witness ==
    /\ last.name = "insert_vertex"
    /\ 0 < last.index
    /\ last.index < Len(prev)
    /\ \E k \in 1..Len(prev) :
          /\ \E j \in 1..Len(prev[k].neighbours) : prev[k].neighbours[j] < last.index
          /\ \E j \in 1..Len(prev[k].neighbours) : prev[k].neighbours[j] >= last.index

\* C10: the neighbour list of the vertex passed to insert_vertex is stored in
\* the graph exactly as it was passed in.
C10_InsertedVertexKept ==
    last.name = "insert_vertex" =>
        vertices[last.index + 1].neighbours = last.vertex.neighbours

-----------------------------------------------------------------------------
(* Properties of Graph::build *)

\* vs[a] lists b as a neighbour
IsLink(vs, a, b) ==
    \E j \in 1..Len(vs[a + 1].neighbours) : vs[a + 1].neighbours[j] = b

\* the vertices one directed link away from a vertex of S, and S itself
ReachStep(vs, S) ==
    S \cup {b \in 0..(Len(vs) - 1) : \E a \in S : IsLink(vs, a, b)}

\* the vertices reachable from S along directed links
RECURSIVE Closure(_, _)
Closure(vs, S) ==
    IF ReachStep(vs, S) = S THEN S ELSE Closure(vs, ReachStep(vs, S))

Reachable(vs, a, b) == b \in Closure(vs, {a})

\* no two vertices of vs share a position
DistinctPositions(vs) ==
    \A i, j \in 1..Len(vs) : i # j => vs[i].position # vs[j].position

\* vs is one of the fully linked grids
IsGrid(vs) == \E W \in 1..GridW, H \in 1..GridH : vs = GridGraph(W, H)

\* a search has returned a value
Returned == pc = "done"

\* C1: on a fully linked rectangular grid with distinct positions, for every
\* valid (from, to), from = to included, build returns Ok(Full) with a
\* non-empty path that starts at the position of `to` and ends at the position
\* of `from`.
C1_GridSearchIsFull ==
    (Returned /\ IsGrid(vertices)) =>
        /\ result = Ok("Full")
        /\ path # <<>>
        /\ path[1] = vertices[to + 1].position
        /\ path[Len(path)] = vertices[from + 1].position

\* C2: Partial is returned only when no route exists: with in-range neighbour
\* entries, valid from # to and `to` reachable from `from` along directed
\* links, build returns Ok(Full) with the position of `to` as first waypoint.
C2_PartialOnlyWithoutRoute ==
    (/\ Returned
     /\ vertices # <<>>
     /\ InRange(vertices)
     /\ from # to
     /\ Reachable(vertices, from, to)) =>
        /\ result = Ok("Full")
        /\ path # <<>>
        /\ path[1] = vertices[to + 1].position

\* C3: with distinct positions, in-range neighbour entries and `to` not
\* reachable from `from`, build returns Ok(Partial) with a non-empty path that
\* ends at the position of `from` and visits only vertices reachable from
\* `from`.
C3_UnreachableIsPartial ==
    (/\ Returned
     /\ vertices # <<>>
     /\ DistinctPositions(vertices)
     /\ InRange(vertices)
     /\ ~Reachable(vertices, from, to)) =>
        /\ result = Ok("Partial")
        /\ path # <<>>
        /\ path[Len(path)] = vertices[from + 1].position
        /\ \A i \in 1..Len(path) :
              \E v \in Closure(vertices, {from}) : path[i] = vertices[v + 1].position

\* C4: build returns Ok(Full) only if the winning candidate ends at vertex
\* `to`, and never when `to` is unreachable from `from`, vertices sharing a
\* position included.
C4_FullEndsAtTo ==
    (Returned /\ result = Ok("Full")) =>
        /\ best_path.vertices # <<>>
        /\ best_path.vertices[Len(best_path.vertices)] = to
        /\ Reachable(vertices, from, to)

\* C5: for every Ok result of build, any two consecutive waypoints p[i],
\* p[i+1] of the returned path are the positions of two vertices joined by a
\* link: the vertex of p[i+1] lists the vertex of p[i] as a neighbour.
C5_WaypointsAreLinked ==
    (Returned /\ result.tag \in {"Full", "Partial"}) =>
        \A i \in 1..(Len(path) - 1) :
            \E a \in 0..(Len(vertices) - 1), b \in 0..(Len(vertices) - 1) :
                /\ vertices[a + 1].position = path[i]
                /\ vertices[b + 1].position = path[i + 1]
                /\ IsLink(vertices, b, a)

-----------------------------------------------------------------------------
(* Graphs grown from the empty graph by the mutators, every vertex added   *)
(* without neighbours                                                       *)

\* Graph::new()
LinkInit ==
    /\ vertices = <<>>
    /\ prev = <<>>
    /\ last = NoCall
    /\ SearchIdle
    /\ ResNew

\* add_vertex(GraphVertex::new(p))
AddPlain ==
    /\ last = NoCall
    /\ Len(vertices) < MaxVerts
    /\ \E p \in MutPoints :
          Mutate("add_vertex", Len(vertices), 0, Vertex(p, <<>>),
                 add_vertex(vertices, Vertex(p, <<>>)))

\* insert_vertex(index, GraphVertex::new(p))
InsertPlain ==
    /\ last = NoCall
    /\ Len(vertices) < MaxVerts
    /\ \E index \in 0..Len(vertices), p \in MutPoints :
          Mutate("insert_vertex", index, 0, Vertex(p, <<>>),
                 insert_vertex(vertices, index, Vertex(p, <<>>)))

\* a mutator call that panics, leaving the graph as vs
Panicked(name, index, v, vs) ==
    /\ vertices' = vs
    /\ prev' = vertices
    /\ last' = Call(name, index, 0, v)
    /\ result' = Panic
    /\ UNCHANGED <<from, to, pc, searched_vertices, search_heap, best_path,
                   iter, found, path, oldVars, resVars>>

\* remove_vertex(index) with index >= len: the loop over the neighbour lists
\* runs, then Vec::remove panics
RemoveMissing ==
    /\ last = NoCall
    /\ \E index \in {i \in NbValues : i >= Len(vertices)} :
          Panicked("remove_vertex", index, NoVertex,
                   [k \in 1..Len(vertices) |->
                       Vertex(vertices[k].position,
                              remove_refs(vertices[k].neighbours, index))])

\* insert_vertex(index, GraphVertex::new(p)) with index > len: Vec::insert
\* panics before anything is changed
InsertBeyond ==
    /\ last = NoCall
    /\ \E index \in {i \in NbValues : i > Len(vertices)}, p \in MutPoints :
          Panicked("insert_vertex", index, Vertex(p, <<>>), vertices)

LinkNext ==
    \/ AddPlain
    \/ InsertPlain
    \/ RemoveVertex
    \/ PopVertex
    \/ LinkUnidirect
    \/ LinkBidirect
    \/ RemoveMissing
    \/ InsertBeyond
    \/ Resume

SpecLink == LinkInit /\ [][LinkNext]_vars

\* C11: in a graph grown from the empty graph by add_vertex, insert_vertex
\* (vertices without neighbours), remove_vertex, pop_vertex, link_unidirect
\* and link_bidirect no neighbour list holds an index twice, and repeating a
\* link_unidirect(a, b) call leaves the graph as the first call left it.
C11_NoDuplicateNeighbours ==
    /\ NoDuplicates(vertices)
    /\ last.name = "link_unidirect" =>
          link_unidirect(vertices, last.index, last.b) = vertices

\* C11 witness: link_unidirect(a, b) was called on a graph in which a already
\* listed b, next to another entry
C11_Witness ==
    /\ last.name = "link_unidirect"
    /\ last.index < Len(prev)
    /\ IsLink(prev, last.index, last.b)
    /\ Len(prev[last.index + 1].neighbours) = 2

\* C17: link_unidirect(a, b) and link_bidirect(a, b) with a or b not the index
\* of an existing vertex leave every neighbour list unchanged.
C17_LinkToMissingVertexIsNoOp ==
    (/\ last.name \in {"link_unidirect", "link_bidirect"}
     /\ (last.index >= Len(prev) \/ last.b >= Len(prev))) =>
        vertices = prev

\* C18: remove_vertex(index) with index >= vertex count and
\* insert_vertex(index, v) with index > vertex count do not panic and leave
\* the vertex sequence and all neighbour lists unchanged.
C18_OutOfRangeMutationIsNoOp ==
    (\/ last.name = "remove_vertex" /\ last.index >= Len(prev)
     \/ last.name = "insert_vertex" /\ last.index > Len(prev)) =>
        /\ result # Panic
        /\ vertices = prev

-----------------------------------------------------------------------------
(* Graph::build_old: path.clear(), then Graph::build_and_convert with a     *)
(* callback that pushes the position of every vertex it is handed.  The     *)
(* scratch fields of the vertices are kept in state, g_score, f_score and   *)
(* parent, one entry per vertex.                                            *)

\* Option::None in VertexData::parent
NoParent == -1

CyclicReferenceFound(i) == [tag |-> "CyclicReferenceFound", arg |-> i]

\* the call does not return
Hang == [tag |-> "hang", arg |-> 0]

\* the scan for the open vertex with the lowest f_score from vertex i on
\* (1-based): the first one with the smallest score below f32::MAX, vertex 0
\* if there is none
RECURSIVE LowestOpen(_, _, _, _, _)
LowestOpen(st, fs, i, current_index, lowest_f_score) ==
    IF i > Len(st) THEN current_index
    ELSE IF st[i] = "Open" /\ fs[i] < lowest_f_score
         THEN LowestOpen(st, fs, i + 1, i - 1, fs[i])
         ELSE LowestOpen(st, fs, i + 1, current_index, lowest_f_score)

\* the neighbour loop without the test for a vertex listing itself
RECURSIVE Relax_unchecked(_, _, _, _, _)
Relax_unchecked(vs, end_pos, current_index, k, acc) ==
    LET nb == vs[current_index + 1].neighbours
        neighbour_index == nb[k]
        neighbour == vs[neighbour_index + 1]
        g == acc.g_score[current_index + 1]
                + norm_squared(vs[current_index + 1].position, neighbour.position)
                      * acc.g_penalty[neighbour_index + 1]
    IN  IF k > Len(nb) THEN acc
        ELSE IF neighbour_index >= Len(vs)
             THEN [acc EXCEPT !.err = InvalidIndex(neighbour_index)]
        ELSE IF g < acc.g_score[neighbour_index + 1]
             THEN Relax_unchecked(vs, end_pos, current_index, k + 1,
                        [acc EXCEPT
                            !.parent[neighbour_index + 1] = current_index,
                            !.g_score[neighbour_index + 1] = g,
                            !.f_score[neighbour_index + 1] =
                                g + heuristic(neighbour.position, end_pos),
                            !.state[neighbour_index + 1] = "Open",
                            !.open_set_size =
                                IF acc.state[neighbour_index + 1] # "Open"
                                THEN @ + 1 ELSE @])
        ELSE Relax_unchecked(vs, end_pos, current_index, k + 1, acc)

\* the neighbour loop taking a neighbour over when its score is not improved
\* but only equalled
RECURSIVE Relax_nonstrict(_, _, _, _, _)
Relax_nonstrict(vs, end_pos, current_index, k, acc) ==
    LET nb == vs[current_index + 1].neighbours
        neighbour_index == nb[k]
        neighbour == vs[neighbour_index + 1]
        g == acc.g_score[current_index + 1]
                + norm_squared(vs[current_index + 1].position, neighbour.position)
                      * acc.g_penalty[neighbour_index + 1]
    IN  IF k > Len(nb) THEN acc
        ELSE IF neighbour_index = current_index
             THEN [acc EXCEPT !.err = CyclicReferenceFound(current_index)]
        ELSE IF neighbour_index >= Len(vs)
             THEN [acc EXCEPT !.err = InvalidIndex(neighbour_index)]
        ELSE IF g <= acc.g_score[neighbour_index + 1]
             THEN Relax_nonstrict(vs, end_pos, current_index, k + 1,
                        [acc EXCEPT
                            !.parent[neighbour_index + 1] = current_index,
                            !.g_score[neighbour_index + 1] = g,
                            !.f_score[neighbour_index + 1] =
                                g + heuristic(neighbour.position, end_pos),
                            !.state[neighbour_index + 1] = "Open",
                            !.open_set_size =
                                IF acc.state[neighbour_index + 1] # "Open"
                                THEN @ + 1 ELSE @])
        ELSE Relax_nonstrict(vs, end_pos, current_index, k + 1, acc)

\* the neighbour loop counting every neighbour it takes over as newly opened
RECURSIVE Relax_overcount(_, _, _, _, _)
Relax_overcount(vs, end_pos, current_index, k, acc) ==
    LET nb == vs[current_index + 1].neighbours
        neighbour_index == nb[k]
        neighbour == vs[neighbour_index + 1]
        g == acc.g_score[current_index + 1]
                + norm_squared(vs[current_index + 1].position, neighbour.position)
                      * acc.g_penalty[neighbour_index + 1]
    IN  IF k > Len(nb) THEN acc
        ELSE IF neighbour_index = current_index
             THEN [acc EXCEPT !.err = CyclicReferenceFound(current_index)]
        ELSE IF neighbour_index >= Len(vs)
             THEN [acc EXCEPT !.err = InvalidIndex(neighbour_index)]
        ELSE IF g < acc.g_score[neighbour_index + 1]
             THEN Relax_overcount(vs, end_pos, current_index, k + 1,
                        [acc EXCEPT
                            !.parent[neighbour_index + 1] = current_index,
                            !.g_score[neighbour_index + 1] = g,
                            !.f_score[neighbour_index + 1] =
                                g + heuristic(neighbour.position, end_pos),
                            !.state[neighbour_index + 1] = "Open",
                            !.open_set_size = @ + 1])
        ELSE Relax_overcount(vs, end_pos, current_index, k + 1, acc)

\* the neighbour loop comparing the new g_score with the f_score of the
\* neighbour
RECURSIVE Relax_by_f_score(_, _, _, _, _)
Relax_by_f_score(vs, end_pos, current_index, k, acc) ==
    LET nb == vs[current_index + 1].neighbours
        neighbour_index == nb[k]
        neighbour == vs[neighbour_index + 1]
        g == acc.g_score[current_index + 1]
                + norm_squared(vs[current_index + 1].position, neighbour.position)
                      * acc.g_penalty[neighbour_index + 1]
    IN  IF k > Len(nb) THEN acc
        ELSE IF neighbour_index = current_index
             THEN [acc EXCEPT !.err = CyclicReferenceFound(current_index)]
        ELSE IF neighbour_index >= Len(vs)
             THEN [acc EXCEPT !.err = InvalidIndex(neighbour_index)]
        ELSE IF g < acc.f_score[neighbour_index + 1]
             THEN Relax_by_f_score(vs, end_pos, current_index, k + 1,
                        [acc EXCEPT
                            !.parent[neighbour_index + 1] = current_index,
                            !.g_score[neighbour_index + 1] = g,
                            !.f_score[neighbour_index + 1] =
                                g + heuristic(neighbour.position, end_pos),
                            !.state[neighbour_index + 1] = "Open",
                            !.open_set_size =
                                IF acc.state[neighbour_index + 1] # "Open"
                                THEN @ + 1 ELSE @])
        ELSE Relax_by_f_score(vs, end_pos, current_index, k + 1, acc)

\* the loop over current_vertex.neighbours from the k-th entry on; acc holds
\* the scratch fields, open_set_size and the error the loop returned with
RECURSIVE Relax(_, _, _, _, _)
Relax(vs, end_pos, current_index, k, acc) ==
    LET nb == vs[current_index + 1].neighbours
        neighbour_index == nb[k]
        neighbour == vs[neighbour_index + 1]
        g == acc.g_score[current_index + 1]
                + norm_squared(vs[current_index + 1].position, neighbour.position)
                      * acc.g_penalty[neighbour_index + 1]
    IN  IF k > Len(nb) THEN acc
        ELSE IF neighbour_index = current_index
             THEN [acc EXCEPT !.err = CyclicReferenceFound(current_index)]
        ELSE IF neighbour_index >= Len(vs)
             THEN [acc EXCEPT !.err = InvalidIndex(neighbour_index)]
        ELSE IF g < acc.g_score[neighbour_index + 1]
             THEN Relax(vs, end_pos, current_index, k + 1,
                        [acc EXCEPT
                            !.parent[neighbour_index + 1] = current_index,
                            !.g_score[neighbour_index + 1] = g,
                            !.f_score[neighbour_index + 1] =
                                g + heuristic(neighbour.position, end_pos),
                            !.state[neighbour_index + 1] = "Open",
                            !.open_set_size =
                                IF acc.state[neighbour_index + 1] # "Open"
                                THEN @ + 1 ELSE @])
        ELSE Relax(vs, end_pos, current_index, k + 1, acc)

\* the scan for closest_index moving on to every vertex that is as close as
\* the closest so far
RECURSIVE Closest_last(_, _, _)
Closest_last(fs, i, closest_index) ==
    IF i > Len(fs) THEN closest_index
    ELSE IF fs[i] <= fs[closest_index + 1] THEN Closest_last(fs, i + 1, i - 1)
    ELSE Closest_last(fs, i + 1, closest_index)

\* the scan for closest_index from vertex i on (1-based)
RECURSIVE Closest(_, _, _)
Closest(fs, i, closest_index) ==
    IF i > Len(fs) THEN closest_index
    ELSE IF fs[i] < fs[closest_index + 1] THEN Closest(fs, i + 1, i - 1)
    ELSE Closest(fs, i + 1, closest_index)

\* reconstruct_path that hands over the first vertex only
reconstruct_path_first(vs, par, current, n) ==
    IF n = 0 \/ current >= Len(vs) THEN <<>> ELSE <<current>>

\* Graph::reconstruct_path: the indices handed to the callback, following
\* parent from current; cut after n vertices
RECURSIVE reconstruct_path(_, _, _, _)
reconstruct_path(vs, par, current, n) ==
    IF n = 0 \/ current >= Len(vs) THEN <<>>
    ELSE <<current>> \o (IF par[current + 1] = NoParent THEN <<>>
                         ELSE reconstruct_path(vs, par, par[current + 1], n - 1))

\* the return of build_and_convert after reconstruct_path(current): a chain
\* of more vertices than the graph has never ends
ReturnPath(kind, current) ==
    LET chain == reconstruct_path(vertices, parent, current, Len(vertices) + 1)
    IN  IF Len(chain) > Len(vertices) THEN Return(Hang, path)
        ELSE Return(Ok(kind), Positions(vertices, chain))

\* the scratch fields after VertexData::clear() has run on every vertex
Cleared(value) == [k \in 1..Len(vertices) |-> value]

\* a loop over the vertices that resets the state, f_score and parent of each
\* and leaves the g_score it finds
clear_keeps_g_score ==
    Scratch(Cleared("NonVisited"), Cleared(1),
            IF Len(g_score) = Len(vertices) THEN g_score ELSE Cleared(FMAX),
            Cleared(FMAX), Cleared(NoParent))

\* `for vertex in self.vertices.iter_mut() { vertex.clear(); }`
clear ==
    Scratch(Cleared("NonVisited"), Cleared(1), Cleared(FMAX), Cleared(FMAX),
            Cleared(NoParent))

\* a call build_old(from, to, &mut path) on the graph as it stands, with a
\* buffer holding buf, up to the open-set loop
OldCallOn(f, t, buf) ==
    /\ pc \in {"setup", "again"}
    /\ UNCHANGED <<vertices, mutVars, resVars, searched_vertices, search_heap, best_path,
                   iter, found>>
    /\ from' = f
    /\ to' = t
    /\ IF vertices = <<>>
       THEN /\ Return(Ok("Partial"), <<>>)
            /\ UNCHANGED oldVars
       ELSE /\ parent' = clear.parent
            /\ penalty' = clear.g_penalty
            /\ stale' = Scratch(state, penalty, g_score, f_score, parent)
            /\ IF t >= Len(vertices) \/ f >= Len(vertices)
               THEN /\ Return(InvalidIndex(IF t >= Len(vertices) THEN t ELSE f),
                              <<>>)
                    /\ state' = clear.state
                    /\ g_score' = clear.g_score
                    /\ f_score' = clear.f_score
                    /\ UNCHANGED open_set_size
               ELSE /\ state' = [clear.state EXCEPT ![f + 1] = "Open"]
                    /\ g_score' = [clear.g_score EXCEPT ![f + 1] = 0]
                    /\ f_score' = [clear.f_score EXCEPT ![f + 1] =
                                      heuristic(vertices[f + 1].position,
                                                vertices[t + 1].position)]
                    /\ open_set_size' = 1
                    /\ path' = <<>>
                    /\ pc' = "old_loop"
                    /\ UNCHANGED result

\* one iteration of `while open_set_size > 0`
OldIter ==
    /\ pc = "old_loop"
    /\ open_set_size > 0
    /\ UNCHANGED <<vertices, mutVars, resVars, from, to, searched_vertices, search_heap,
                   best_path, iter, found>>
    /\ LET current_index == LowestOpen(state, f_score, 1, 0, FMAX)
           end_pos == vertices[to + 1].position
           acc == Relax(vertices, end_pos, current_index, 1,
                        [state |-> [state EXCEPT ![current_index + 1] = "Closed"],
                         g_penalty |-> penalty,
                         g_score |-> g_score,
                         f_score |-> f_score,
                         parent |-> parent,
                         open_set_size |-> open_set_size - 1,
                         err |-> NoResult])
       IN  IF current_index = to
           THEN /\ ReturnPath("Full", current_index)
                /\ UNCHANGED oldVars
           ELSE /\ state' = acc.state
                /\ g_score' = acc.g_score
                /\ f_score' = acc.f_score
                /\ parent' = acc.parent
                /\ open_set_size' = acc.open_set_size
                /\ UNCHANGED <<penalty, stale>>
                /\ IF acc.err # NoResult
                   THEN Return(acc.err, path)
                   ELSE UNCHANGED <<pc, path, result>>

\* build_and_convert after the open-set loop has run out of open vertices
OldPartial ==
    /\ pc = "old_loop"
    /\ open_set_size <= 0
    /\ UNCHANGED <<vertices, mutVars, resVars, from, to, searched_vertices, search_heap,
                   best_path, iter, found, oldVars>>
    /\ ReturnPath("Partial", Closest(f_score, 1, 0))

-----------------------------------------------------------------------------------------------------------------------------------------------------
(* Searches with any arguments, on graphs whose links may point anywhere *)

\* the indices a search is called with: every valid one and one that is not
AnyIndices == 0..Len(vertices)

BuildCallAny ==
    \E f \in AnyIndices, t \in AnyIndices, buf \in {<<>>, StalePath} :
        BuildCallOn(f, t, buf)

OldCallAny ==
    \E f \in AnyIndices, t \in AnyIndices, buf \in {<<>>, StalePath} :
        OldCallOn(f, t, buf)

\* add_vertex(GraphVertex::new(p)) with the vertices placed along a line,
\* vertex k at (k, 0, 0)
SetupLineVertex ==
    /\ pc = "setup"
    /\ Len(vertices) < MaxVerts
    /\ vertices' = add_vertex(vertices, Vertex(<<Len(vertices), 0, 0>>, <<>>))
    /\ UNCHANGED <<mutVars, resVars, searchVars>>

\* link_unidirect(a, b) from a vertex of the graph to any index: itself and
\* an index out of range included
SetupLinkAny ==
    /\ pc = "setup"
    /\ LinkCount(vertices) < MaxLinks
    /\ \E a \in 0..(Len(vertices) - 1), b \in NbValues :
          /\ link_unidirect(vertices, a, b) # vertices
          /\ vertices' = link_unidirect(vertices, a, b)
    /\ UNCHANGED <<mutVars, resVars, searchVars>>

SearchNext ==
    \/ SetupLineVertex
    \/ SetupLinkAny
    \/ BuildCallAny
    \/ BuildIter
    \/ BuildConvert
    \/ OldCallAny
    \/ OldIter
    \/ OldPartial

SpecSearch == BuildInit /\ [][SearchNext]_vars

-----------------------------------------------------------------------------
(* Graph::build_old with valid arguments on graphs with in-range links *)

\* build_old called with valid indices (index 0 on the empty graph)
OldCall ==
    \E f \in CallIndices, t \in CallIndices, buf \in {<<>>, StalePath} :
        OldCallOn(f, t, buf)

\* positions of the vertices of the two-route graphs
DetourPoints == {<<0, 0, 0>>, <<0, 1, 0>>, <<1, 1, 0>>, <<3, 0, 0>>}

\* a graph with two routes from vertex 0 to vertex 3: the link 0 -> 3 and the
\* chain 0 -> 1 -> 2 -> 3
DetourGraph(p0, p1, p2, p3, direct_first) ==
    <<Vertex(p0, IF direct_first THEN <<3, 1>> ELSE <<1, 3>>),
      Vertex(p1, <<2>>), Vertex(p2, <<3>>), Vertex(p3, <<>>)>>

\* add_vertex and link_unidirect calls that build a two-route graph
SetupDetour ==
    /\ pc = "setup"
    /\ vertices = <<>>
    /\ \E p0 \in DetourPoints, p1 \in DetourPoints, p2 \in DetourPoints,
          p3 \in DetourPoints, direct_first \in BOOLEAN :
          vertices' = DetourGraph(p0, p1, p2, p3, direct_first)
    /\ UNCHANGED <<mutVars, resVars, searchVars>>

OldNext ==
    \/ SetupVertex
    \/ SetupLink
    \/ SetupGrid
    \/ SetupDetour
    \/ OldCall
    \/ OldIter
    \/ OldPartial

SpecOld == BuildInit /\ [][OldNext]_vars

-----------------------------------------------------------------------------
(* Properties of the error handling of the searches *)

\* C12: on a non-empty graph build and build_old return InvalidIndex(to) when
\* `to` is out of range, and InvalidIndex(from) when `to` is valid and `from`
\* is out of range; the output path is empty in both cases.
C12_InvalidEndpoints ==
    (Returned /\ vertices # <<>>) =>
        /\ to >= Len(vertices) =>
              /\ result.tag = "InvalidIndex"
              /\ result.arg = to
              /\ path = <<>>
        /\ (to < Len(vertices) /\ from >= Len(vertices)) =>
              /\ result.tag = "InvalidIndex"
              /\ result.arg = from
              /\ path = <<>>

\* C12 witness: build has popped the candidate of an out-of-range `from` in
\* its first iteration and returned the error
C12_Witness ==
    /\ Returned
    /\ vertices # <<>>
    /\ to < Len(vertices)
    /\ from >= Len(vertices)
    /\ iter = 1
    /\ result.tag = "InvalidIndex"
    /\ result.arg = from

\* the first neighbour entry of vertex `from` is out of range
FirstLinkDangles ==
    /\ from < Len(vertices)
    /\ vertices[from + 1].neighbours # <<>>
    /\ vertices[from + 1].neighbours[1] >= Len(vertices)

\* C13: no search ends in a panic; when the vertex expanded first (`from`,
\* with valid from # to) holds an out-of-range neighbour index i as its first
\* entry, the search returns InvalidIndex(i) as a value.
C13_NoPanic ==
    Returned =>
        /\ result.tag # "panic"
        /\ (to < Len(vertices) /\ from # to /\ FirstLinkDangles) =>
              /\ result.tag = "InvalidIndex"
              /\ result.arg = vertices[from + 1].neighbours[1]

\* C15: on a graph without vertices build and build_old return Ok(Partial),
\* never an error, and the output path is empty on return whatever the buffer
\* held before the call.
C15_EmptyGraphEmptyPath ==
    (Returned /\ vertices = <<>>) =>
        /\ result = Ok("Partial")
        /\ path = <<>>

\* C16: on a graph with at least one vertex and valid from and to, build never
\* returns Err(PathError::Empty) and always yields at least one waypoint.
C16_EmptyErrorOnlyOnEmptyGraph ==
    (Returned /\ vertices # <<>> /\ from < Len(vertices) /\ to < Len(vertices)) =>
        /\ result # ErrEmpty
        /\ path # <<>>

-----------------------------------------------------------------------------
(* Properties of Graph::build_old *)

\* vertex i lists its own index
SelfLoop(i) == IsLink(vertices, i, i)

\* the vertices reachable from `from` that list themselves
ReachableSelfLoops == {i \in Closure(vertices, {from}) : SelfLoop(i)}

LinkCost(vs, a, b) == norm_squared(vs[a + 1].position, vs[b + 1].position)

\* the smallest element of a non-empty set of numbers
Least(S) == CHOOSE x \in S : \A y \in S : x <= y

\* cheapest cost from the start vertex to every vertex over routes of one
\* more link than d accounts for; d[v + 1] = FMAX when no route is known
CheaperByOneLink(vs, d) ==
    [k \in 1..Len(vs) |->
        Least({d[k]} \cup {d[u + 1] + LinkCost(vs, u, k - 1) :
                              u \in {w \in 0..(Len(vs) - 1) :
                                        d[w + 1] < FMAX /\ IsLink(vs, w, k - 1)}})]

RECURSIVE CheapestFrom(_, _, _)
CheapestFrom(vs, d, n) ==
    IF n = 0 THEN d ELSE CheapestFrom(vs, CheaperByOneLink(vs, d), n - 1)

\* the cost of the cheapest directed route from a to b, FMAX if there is none
CheapestCost(vs, a, b) ==
    CheapestFrom(vs, [k \in 1..Len(vs) |-> IF k = a + 1 THEN 0 ELSE FMAX],
                 Len(vs))[b + 1]

\* the cost of a sequence of waypoints
RECURSIVE WaypointCost(_)
WaypointCost(p) ==
    IF Len(p) < 2 THEN 0
    ELSE norm_squared(p[1], p[2]) + WaypointCost(Tail(p))

\* C19: when build_old returns Full, the cost of the returned route (the sum
\* of the squared lengths of its links) is the smallest cost of any directed
\* route from `from` to `to`.
C19_FullRouteIsCheapest ==
    (Returned /\ result = Ok("Full")) =>
        WaypointCost(path) = CheapestCost(vertices, from, to)

\* no vertex of vs lists its own index
NoSelfLoops(vs) == \A i \in 0..(Len(vs) - 1) : ~IsLink(vs, i, i)

\* C20: on a non-empty graph with in-range neighbour entries and no vertex
\* listing itself, build_old with valid from and to returns Ok(Full) if `to`
\* is reachable from `from` and Ok(Partial) otherwise; a Full path starts at
\* the position of `to`, ends at the position of `from`, and has exactly one
\* waypoint when from = to.
C20_OldFullIffReachable ==
    (/\ Returned
     /\ vertices # <<>>
     /\ InRange(vertices)
     /\ NoSelfLoops(vertices)) =>
        /\ Reachable(vertices, from, to) => result = Ok("Full")
        /\ ~Reachable(vertices, from, to) => result = Ok("Partial")
        /\ result = Ok("Full") =>
              /\ path # <<>>
              /\ path[1] = vertices[to + 1].position
              /\ path[Len(path)] = vertices[from + 1].position
              /\ from = to => Len(path) = 1

\* C20 witness: a Full route over at least two links, found after a vertex
\* off the route had been expanded
C20_Witness ==
    /\ Returned
    /\ NoSelfLoops(vertices)
    /\ result = Ok("Full")
    /\ Len(path) >= 3
    /\ \E i \in 1..Len(vertices) :
          /\ state[i] = "Closed"
          /\ \A k \in 1..Len(path) : path[k] # vertices[i].position

-----------------------------------------------------------------------------
(* Termination of the searches.  Both searches run on small graphs whose    *)
(* vertices may share a point (links of length zero) and whose links may    *)
(* form cycles, and on one chain long enough for the iteration cap of       *)
(* Graph::build to be hit.                                                  *)

\* the number of vertices of the long chain: more than the loop of
\* Graph::build has iterations
ChainLen == MaxIters + 2

\* add_vertex and link_unidirect calls that build a chain
\* 0 -> 1 -> ... -> ChainLen - 1 whose vertices lie alternately at two points,
\* the last one at a third
LongChain ==
    [k \in 1..ChainLen |->
        Vertex(<<IF k = ChainLen THEN 2 ELSE (k - 1) % 2, 0, 0>>,
               IF k < ChainLen THEN <<k>> ELSE <<>>)]

SetupChain ==
    /\ pc = "setup"
    /\ vertices = <<>>
    /\ vertices' = LongChain
    /\ UNCHANGED <<mutVars, resVars, searchVars>>

\* two vertices of a small graph are linked
TermSetupLink ==
    /\ Len(vertices) <= MaxVerts
    /\ SetupLink

\* build on a small graph with valid indices, on the chain from its first
\* vertex to its last
TermBuildCall ==
    /\ IF Len(vertices) = ChainLen
       THEN \E buf \in {<<>>, StalePath} : BuildCallOn(0, ChainLen - 1, buf)
       ELSE BuildCall

\* build_old on a small graph with valid indices
TermOldCall ==
    /\ Len(vertices) <= MaxVerts
    /\ OldCall

\* the steps of a search that has been called
SearchStep ==
    \/ BuildIter
    \/ BuildConvert
    \/ OldIter
    \/ OldPartial

TermNext ==
    \/ SetupVertex
    \/ TermSetupLink
    \/ SetupChain
    \/ TermBuildCall
    \/ TermOldCall
    \/ BuildIter
    \/ BuildConvert
    \/ OldIter
    \/ OldPartial

\* a call, once made, keeps running: the code is sequential and nothing
\* suspends it
SpecTerm == BuildInit /\ [][TermNext]_vars /\ WF_vars(SearchStep)

\* a search has been called and has not returned
Searching == pc \in {"loop", "old_loop"}

\* C21: every search call returns: the loop of build starts at most 1000
\* iterations, and when the 1000th has run with candidates left build returns
\* the best candidate recorded so far; the open-set loop of build_old and the
\* walk along the parent entries end on every graph, cycles and links of
\* length zero included.
C21_SearchTerminates ==
    /\ [](iter <= MaxIters)
    /\ [](result # Hang)
    /\ []((Returned /\ iter = MaxIters /\ result.tag \in {"Full", "Partial"}) =>
             path = Reverse(Positions(vertices, best_path.vertices)))
    /\ (Searching ~> Returned)

\* C21 witness: build has returned after 1000 iterations with candidates
\* left in the heap
C21_Witness ==
    /\ Returned
    /\ iter = MaxIters
    /\ search_heap # EmptyHeap

-----------------------------------------------------------------------------
(* Properties of the resource manager *)

\* the calls of try_spawn_loading_task made by request for path p
FirstLoads(p) ==
    CopiesIn([path |-> p, reload |-> FALSE, spawned |-> TRUE], spawn_log)
        + CopiesIn([path |-> p, reload |-> FALSE, spawned |-> FALSE], spawn_log)

\* C22: with no eviction, a request of a path requested before returns the
\* resource the container holds for it, in whatever state it is, and leaves
\* the container and the loading tasks as they are; the container never holds
\* two resources of one path, and request starts the loading of a path at
\* most once.
C22_RequestSharesResource ==
    /\ \A i, j \in 1..Len(resources) :
          i # j => resources[i].path # resources[j].path
    /\ \A p \in ResPaths : FirstLoads(p) <= 1
    /\ (rcall.name = "request" /\ find(rprev.resources, rcall.arg) # 0) =>
          /\ rcall.ret = find(rprev.resources, rcall.arg)
          /\ resources = rprev.resources
          /\ tasks = rprev.tasks

\* C22 witness: a path is requested again after its resource was loaded,
\* while the container holds a resource that failed to load
C22_Witness ==
    /\ rcall.name = "request"
    /\ find(rprev.resources, rcall.arg) # 0
    /\ resources[rcall.ret].state = "Ok"
    /\ \E i \in 1..Len(resources) : resources[i].state = "LoadError"

\* C23: after any sequence of set and try_replace calls the container holds at
\* most one loader of any type; a set of a loader whose type is present
\* replaces that loader in place, returns it and leaves the length unchanged.
C23_OneLoaderPerType ==
    /\ \A i, j \in 1..Len(loaders) : i # j => loaders[i].type # loaders[j].type
    /\ (rcall.name = "set" /\ LoaderPosition(rprev.loaders, rcall.arg.type) # 0) =>
          LET pos == LoaderPosition(rprev.loaders, rcall.arg.type)
          IN  /\ loaders = [rprev.loaders EXCEPT ![pos] = rcall.arg]
              /\ rcall.ret = rprev.loaders[pos]
              /\ Len(loaders) = Len(rprev.loaders)

-----------------------------------------------------------------------------
(* Properties of the search loop of Graph::build *)

\* C24: an iteration of the search loop of build that expands the last vertex
\* of the popped candidate (it neither ends the loop nor returns) marks a
\* vertex searched that was not marked before: no vertex is expanded twice in
\* one search.
C24_ExpandedAtMostOnce ==
    [][(iter' = iter + 1 /\ pc' = "loop" /\ ~found') =>
           searched_vertices' # searched_vertices]_vars

-----------------------------------------------------------------------------
(* Graph::build_old on vertices whose scratch fields hold what an earlier   *)
(* search left in them, or what the caller has written into them (the       *)
(* fields are public)                                                       *)

\* the caller writes the same values into the scratch fields of every
\* vertex: any state, with the penalty, scores and parent of a fresh vertex
\* or with a penalty of 3, scores of 0 and vertex 0 as parent
SetScratch ==
    /\ pc = "setup"
    /\ vertices # <<>>
    /\ \E st \in {"NonVisited", "Open", "Closed"}, fresh \in BOOLEAN :
          /\ state' = Cleared(st)
          /\ penalty' = Cleared(IF fresh THEN 1 ELSE 3)
          /\ g_score' = Cleared(IF fresh THEN FMAX ELSE 0)
          /\ f_score' = Cleared(IF fresh THEN FMAX ELSE 0)
          /\ parent' = Cleared(IF fresh THEN NoParent ELSE 0)
    /\ pc' = "again"
    /\ UNCHANGED <<vertices, mutVars, resVars, from, to, searched_vertices,
                   search_heap, best_path, iter, found, path, result,
                   open_set_size, stale>>

\* the caller goes on after a search that has returned; the graph and the
\* buffer stay as the search left them
Reuse ==
    /\ pc = "done"
    /\ pc' = "again"
    /\ result' = NoResult
    /\ UNCHANGED <<vertices, mutVars, resVars, from, to, searched_vertices,
                   search_heap, best_path, iter, found, path, oldVars>>

\* build_old on the graph of the search before, or on scratch fields the
\* caller has set
OldRecall ==
    /\ pc = "again"
    /\ OldCall

ScratchNext ==
    \/ SetupLineVertex
    \/ SetupLink
    \/ SetScratch
    \/ OldCall
    \/ OldRecall
    \/ OldIter
    \/ OldPartial
    \/ Reuse

SpecScratch == BuildInit /\ [][ScratchNext]_vars

\* the open-set loop and the end of build_and_convert run to the return
\* value, from the scratch fields in acc
RECURSIVE OldLoop(_, _, _)
OldLoop(vs, t, acc) ==
    LET current_index == LowestOpen(acc.state, acc.f_score, 1, 0, FMAX)
        next == Relax(vs, vs[t + 1].position, current_index, 1,
                      [acc EXCEPT !.state[current_index + 1] = "Closed",
                                  !.open_set_size = @ - 1])
        current == IF acc.open_set_size > 0 THEN current_index
                   ELSE Closest(acc.f_score, 1, 0)
        chain == reconstruct_path(vs, acc.parent, current, Len(vs) + 1)
    IN  IF acc.open_set_size > 0 /\ current_index # t
        THEN IF next.err # NoResult
             THEN [result |-> next.err, path |-> <<>>]
             ELSE OldLoop(vs, t, next)
        ELSE IF Len(chain) > Len(vs) THEN [result |-> Hang, path |-> <<>>]
        ELSE [result |-> Ok(IF acc.open_set_size > 0 THEN "Full" ELSE "Partial"),
              path |-> Positions(vs, chain)]

\* build_old(from, to, &mut path) on vertices fresh from GraphVertex::new:
\* the value returned and the path
build_old(vs, f, t) ==
    LET fresh == [k \in 1..Len(vs) |-> FMAX]
    IN  IF vs = <<>> THEN [result |-> Ok("Partial"), path |-> <<>>]
        ELSE IF t >= Len(vs) THEN [result |-> InvalidIndex(t), path |-> <<>>]
        ELSE IF f >= Len(vs) THEN [result |-> InvalidIndex(f), path |-> <<>>]
        ELSE OldLoop(vs, t,
                 [state |-> [k \in 1..Len(vs) |->
                                IF k = f + 1 THEN "Open" ELSE "NonVisited"],
                  g_penalty |-> [k \in 1..Len(vs) |-> g_penalty],
                  g_score |-> [fresh EXCEPT ![f + 1] = 0],
                  f_score |-> [fresh EXCEPT ![f + 1] =
                                  heuristic(vs[f + 1].position, vs[t + 1].position)],
                  parent |-> [k \in 1..Len(vs) |-> NoParent],
                  open_set_size |-> 1,
                  err |-> NoResult])

\* C25: whatever the scratch fields of the vertices hold when build_old is
\* called, left by an earlier search or written by the caller, the value
\* returned and the path are those build_old yields on freshly made vertices
\* with the same positions and neighbours and the same from and to.
C25_ScratchDoesNotMatter ==
    Returned =>
        /\ result = build_old(vertices, from, to).result
        /\ path = build_old(vertices, from, to).path

\* C25 witness: a search has returned a route of two links although the call
\* found every vertex closed, with a penalty of 3, a score of 0 and a parent
C25_Witness ==
    /\ Returned
    /\ result = Ok("Full")
    /\ Len(path) >= 3
    /\ stale.state # <<>>
    /\ \A k \in 1..Len(vertices) :
          /\ stale.state[k] = "Closed"
          /\ stale.g_penalty[k] = 3
          /\ stale.g_score[k] = 0
          /\ stale.parent[k] # NoParent

-----------------------------------------------------------------------------
(* The partial path of build_old *)

\* the vertex with the smallest f_score of the whole graph, the one with the
\* lowest index if several share it
LeastF(fs) ==
    CHOOSE c \in 0..(Len(fs) - 1) :
        /\ \A k \in 1..Len(fs) : fs[c + 1] <= fs[k]
        /\ \A k \in 1..c : fs[c + 1] < fs[k]

\* C26: when the open-set loop of build_old ends with no open vertex left,
\* build_old returns Ok(Partial); the path starts at the position of the
\* vertex with the smallest f_score of the whole graph (the lowest index among
\* equals), which can be reached from `from`, and ends at the position of
\* `from`.
C26_PartialFromLeastFScore ==
    [][(pc = "old_loop" /\ open_set_size <= 0) =>
          /\ pc' = "done"
          /\ result' = Ok("Partial")
          /\ path' # <<>>
          /\ path'[1] = vertices[LeastF(f_score) + 1].position
          /\ Reachable(vertices, from, LeastF(f_score))
          /\ path'[Len(path')] = vertices[from + 1].position]_vars

\* C26 witness: a partial path of two or more waypoints has been returned
\* with two vertices sharing the smallest f_score
C26_Witness ==
    /\ Returned
    /\ result = Ok("Partial")
    /\ open_set_size <= 0
    /\ Len(path) >= 2
    /\ \E i \in 1..Len(vertices) :
          /\ i # LeastF(f_score) + 1
          /\ f_score[i] = f_score[LeastF(f_score) + 1]

-----------------------------------------------------------------------------
(* Loading of the resources comes to an end *)

\* the i-th resource of the container is in the Pending state
IsPending(i) == i <= Len(resources) /\ resources[i].state = "Pending"

\* the i-th resource of the container is loaded or has failed to load
IsLoaded(i) == i <= Len(resources) /\ resources[i].state # "Pending"

\* C27: every resource made by request, or put back to Pending by
\* reload_resource, leaves the Pending state for Ok or LoadError in the end,
\* with or without a loader registered for the extension of its path; a wait
\* context taken from the manager reports is_all_loaded() in the end.
C27_PendingResourceIsLoaded ==
    /\ \A i \in 1..Cardinality(ResPaths) : IsPending(i) ~> IsLoaded(i)
    /\ (wait_ctx # {}) ~> is_all_loaded(resources, wait_ctx)

-----------------------------------------------------------------------------
(* The counter of the open-set loop *)

\* the vertices (1-based) whose state is Open
OpenVertices == {k \in 1..Len(state) : state[k] = "Open"}

\* C28: at the start of every iteration of the open-set loop of
\* build_and_convert open_set_size is the number of vertices whose state is
\* Open; the scan then picks a vertex that is Open, and the loop ends for
\* want of open vertices exactly when no vertex is Open.
C28_CounterIsOpenCount ==
    pc = "old_loop" =>
        /\ open_set_size = Cardinality(OpenVertices)
        /\ open_set_size > 0 =>
              LowestOpen(state, f_score, 1, 0, FMAX) + 1 \in OpenVertices
        /\ open_set_size <= 0 <=> OpenVertices = {}

\* C28 witness: an iteration starts with two or more open vertices, one of
\* them a neighbour of two vertices that have been closed, so that the
\* neighbour loop has come to it a second time while it was open
C28_Witness ==
    /\ pc = "old_loop"
    /\ open_set_size >= 2
    /\ \E k \in OpenVertices, c1 \in 1..Len(vertices), c2 \in 1..Len(vertices) :
          /\ c1 # c2
          /\ state[c1] = "Closed"
          /\ state[c2] = "Closed"
          /\ IsLink(vertices, c1 - 1, k - 1)
          /\ IsLink(vertices, c2 - 1, k - 1)

-----------------------------------------------------------------------------
(* The parent links of build_old *)

\* the vertices handed over by reconstruct_path from vertex v (0-based)
ParentWalk(v) == reconstruct_path(vertices, parent, v, Len(vertices) + 1)

\* C29: in every state of build_and_convert after its initialisation the
\* parent links form a tree rooted at `from`: `from` has g_score 0 and no
\* parent; a vertex v with parent p is a neighbour of p, and the g_score of p
\* is not above that of v; following the parent links from a vertex that has
\* one ends at `from` and visits no vertex twice.
C29_ParentLinksFormTree ==
    (pc \in {"old_loop", "done"} /\ vertices # <<>>) =>
        /\ g_score[from + 1] = 0
        /\ parent[from + 1] = NoParent
        /\ \A v \in 0..(Len(vertices) - 1) :
              parent[v + 1] # NoParent =>
                  /\ parent[v + 1] < Len(vertices)
                  /\ IsLink(vertices, parent[v + 1], v)
                  /\ g_score[parent[v + 1] + 1] <= g_score[v + 1]
                  /\ ParentWalk(v)[Len(ParentWalk(v))] = from
                  /\ \A a \in 1..Len(ParentWalk(v)), b \in 1..Len(ParentWalk(v)) :
                        a # b => ParentWalk(v)[a] # ParentWalk(v)[b]

\* C29 witness: the loop is running, a vertex lies two or more links from
\* `from` in the tree, and a vertex with a parent is also a neighbour of a
\* closed vertex that is not its parent, so that its parent is one of two
\* vertices it was reached from
C29_Witness ==
    /\ pc = "old_loop"
    /\ \E v \in 0..(Len(vertices) - 1) : Len(ParentWalk(v)) >= 3
    /\ \E v \in 0..(Len(vertices) - 1), c \in 0..(Len(vertices) - 1) :
          /\ parent[v + 1] # NoParent
          /\ parent[v + 1] # c
          /\ state[c + 1] = "Closed"
          /\ IsLink(vertices, c, v)

-----------------------------------------------------------------------------
(* The candidates of build *)

\* the candidates build holds: those in the heap, and best_path once a
\* candidate has been recorded in it
Candidates ==
    BagToSet(search_heap)
        \cup (IF best_path.vertices = <<>> THEN {} ELSE {best_path})

\* idx starts at `from`, follows links of the graph, and holds no index twice
IsSimplePath(idx) ==
    /\ idx # <<>>
    /\ idx[1] = from
    /\ \A k \in 1..(Len(idx) - 1) : IsLink(vertices, idx[k], idx[k + 1])
    /\ \A a \in 1..Len(idx), b \in 1..Len(idx) : a # b => idx[a] # idx[b]

\* C30: in build on a graph in which no vertex lists itself, every candidate
\* in the heap or recorded as best_path is a simple path: it starts at `from`,
\* every two consecutive indices of it are a directed link of the graph, and
\* no index occurs in it twice.
C30_CandidatesAreSimplePaths ==
    (pc \in {"loop", "done"} /\ vertices # <<>> /\ NoSelfLoops(vertices)) =>
        \A p \in Candidates : IsSimplePath(p.vertices)

\* C30 witness: the heap holds a candidate of three or more vertices whose
\* last vertex has a link back to the vertex before it
C30_Witness ==
    /\ pc = "loop"
    /\ NoSelfLoops(vertices)
    /\ best_path.vertices # <<>>
    /\ \E p \in BagToSet(search_heap) :
          /\ Len(p.vertices) >= 3
          /\ IsLink(vertices, p.vertices[Len(p.vertices)],
                    p.vertices[Len(p.vertices) - 1])
====
